---- MODULE Spec2Model ----
(***************************************************************************)
(* Morepath request handling: view dispatch (core.py get_response and the  *)
(* view predicates), the exception-view tween, Request.view, Request.link, *)
(* follow_defers, mounted_link, and path consumption (traject_consume).    *)
(***************************************************************************)
EXTENDS Integers, Sequences, FiniteSets, TLC

VARIABLES
    pc,         \* position of the request in the tween / get_response / view code
    mode,       \* "handler": inside handler(request); "excview": inside the except branch
    app,        \* request.app
    lookup,     \* request.lookup
    implicit,   \* the implicit application (App.set_implicit)
    view_name,  \* request.view_name
    method,     \* request.method
    req,        \* the request as it arrived: [app, cls, name, method]
    granted,    \* what generic.permits answers for this identity and object
    after,      \* request._after
    called,     \* the after-callbacks that were called, with the response status
    stack,      \* call stack of view functions being executed
    invoked,    \* sequence of [v, by]: view functions called, and by whom
    outcome,    \* what leaves excview_tween
    exc,        \* the exception in flight
    cause,      \* why handler(request) failed: nonmatch / forbidden / method
    exits,      \* one record per exit of Request.view past line 136
    got,        \* the values Request.view returned to its callers
    fd,         \* local state of follow_defers
    defer,      \* generic.deferred_link_app, per application
    hasPath,    \* applications whose lookup has a path for the model object
    mountOk,    \* mounted applications whose parent has a path for them
    lnk,        \* state of a Request.link call
    unconsumed, \* request.unconsumed, the path segments not yet consumed
    query,      \* request.GET: the value of the parameter 'param', "" when absent
    pth,        \* a path consumption and what was made of its result
    mnt,        \* a link through a chain of mounts: the paths on the chain and the links made
    cnv,        \* a value, and what a converter's encode and decode made of it
    ident,      \* request.identity: the identity policy's answers and the reified value
    sub,        \* Request.resolve_path: the calling request and the request of the resolution
    ipr,        \* an IdentityPolicyRegistry
    workers     \* two requests in Request.view, handled by different workers

vars == << pc, mode, app, lookup, implicit, view_name, method, req, granted,
           after, called, stack, invoked, outcome, exc, cause, exits, got,
           fd, defer, hasPath, mountOk, lnk, unconsumed, query, pth,
           mnt, cnv, ident, sub, ipr, workers >>

extVars == << mnt, cnv, ident, sub, ipr, workers >>

pathVars == << unconsumed, query, pth >>

reqVars == << pc, mode, app, lookup, implicit, view_name, method, req, granted,
              after, called, stack, invoked, outcome, exc, cause, exits, got >>

----------------------------------------------------------------------------
(* Bounds and encodings *)

NApps == 3
Apps == 1..NApps

\* None, where an application is expected
NoApp == 0

\* the SAME_APP sentinel
SAME_APP == -1

\* app.lookup
LookupOf(a) == a

----------------------------------------------------------------------------
(* Classes of the objects views are looked up for *)

HTTPErrors == {"HTTPNotFound", "HTTPForbidden", "HTTPMethodNotAllowed", "HTTPFound"}

Base(c) ==
    IF c \in HTTPErrors THEN "HTTPException"
    ELSE IF c \in {"HTTPException", "MyError", "OtherError", "LinkError"} THEN "Exception"
    ELSE "object"

RECURSIVE Mro(_)
Mro(c) == IF c = "object" THEN << >> ELSE << c >> \o Mro(Base(c))

MroSet(c) == { Mro(c)[i] : i \in 1..Len(Mro(c)) }

MroIndex(c, k) == CHOOSE i \in 1..Len(Mro(c)) : Mro(c)[i] = k

\* the status of a webob HTTPException used as a response
ExcStatus(c) ==
    CASE c = "HTTPNotFound" -> 404
      [] c = "HTTPForbidden" -> 403
      [] c = "HTTPMethodNotAllowed" -> 405
      [] c = "HTTPFound" -> 302
      [] OTHER -> 500

Success(status) == status >= 200 /\ status < 400

----------------------------------------------------------------------------
(* The views registered, and what their functions do *)

Methods == {"GET", "POST"}

Names == {"", "internal", "secret", "edit", "resp", "redir", "fail", "cross",
          "deep", "crash", "missing", "boom", "nest"}

\* one statement of a view function
I(op, arg, n) == [op |-> op, arg |-> arg, n |-> n]

Reg(a, model, name, request_method, view) ==
    [app |-> a, model |-> model, name |-> name,
     request_method |-> request_method, view |-> view]

\* (mutant) standard_exception_view is not registered
CoreViewsNone == {}

\* @App.view(model=HTTPException): registered on App itself, so in every application
CoreViews ==
    { Reg(a, "HTTPException", "", "GET", "standard_exception_view") : a \in Apps }

\* the views the applications register: application 1 is the root application,
\* application 2 another application with views for the same model class
AppViews ==
    { Reg(1, "Root", "", "GET", "root_default"),
      Reg(1, "Root", "internal", "GET", "root_internal"),
      Reg(1, "Root", "secret", "GET", "root_secret"),
      Reg(1, "Root", "edit", "POST", "root_edit"),
      Reg(1, "Root", "resp", "GET", "root_resp"),
      Reg(1, "Root", "redir", "GET", "root_redir"),
      Reg(1, "Root", "fail", "GET", "root_fail"),
      Reg(1, "Root", "cross", "GET", "root_cross"),
      Reg(1, "Root", "deep", "GET", "root_deep"),
      Reg(1, "Root", "crash", "GET", "root_crash"),
      Reg(1, "MyError", "", "GET", "myerror_view"),
      Reg(2, "Root", "", "GET", "sub_default"),
      Reg(2, "Root", "boom", "GET", "sub_boom"),
      Reg(2, "Root", "nest", "GET", "sub_nest"),
      Reg(2, "Root", "secret", "GET", "sub_secret") }

Registrations == CoreViews \cup AppViews

Fallbacks == {"obj_not_found", "name_not_found", "method_not_allowed"}

\* a View: its function (as the statements it executes), permission, internal, render
View(permission, internal, render, script) ==
    [permission |-> permission, internal |-> internal, render |-> render,
     script |-> script]

ViewDef(v) ==
    CASE v = "root_default" ->
            View(FALSE, FALSE, "json",
                 << I("after", "cb1", 0), I("view", "internal", SAME_APP),
                    I("return", "root", 0) >>)
      [] v = "root_internal" ->
            View(FALSE, TRUE, "json", << I("return", "Internal!", 0) >>)
      [] v = "root_secret" ->
            View(TRUE, FALSE, "none",
                 << I("after", "cb1", 0), I("return", "secret", 0) >>)
      [] v = "root_edit" ->
            View(FALSE, FALSE, "none", << I("return", "edited", 0) >>)
      [] v = "root_resp" ->
            View(FALSE, FALSE, "none",
                 << I("after", "cb1", 0), I("after", "cb2", 0),
                    I("respond", "", 200) >>)
      [] v = "root_redir" ->
            View(FALSE, FALSE, "none",
                 << I("after", "cb1", 0), I("raise", "HTTPFound", 0) >>)
      [] v = "root_fail" ->
            View(FALSE, FALSE, "none",
                 << I("after", "cb1", 0), I("raise", "MyError", 0) >>)
      [] v = "root_cross" ->
            View(FALSE, FALSE, "none",
                 << I("view", "boom", 3), I("return", "crossed", 0) >>)
      [] v = "root_deep" ->
            View(FALSE, FALSE, "json",
                 << I("after", "cb1", 0), I("view", "nest", 2),
                    I("view", "secret", 3), I("view", "nothing", 2),
                    I("return", "deep", 0) >>)
      [] v = "root_crash" ->
            View(FALSE, FALSE, "none", << I("raise", "OtherError", 0) >>)
      [] v = "myerror_view" ->
            View(FALSE, FALSE, "err500", << I("return", "error page", 0) >>)
      [] v = "sub_default" ->
            View(FALSE, FALSE, "none",
                 << I("after", "cb2", 0), I("after", "cb1", 0),
                    I("return", "sub", 0) >>)
      [] v = "sub_boom" ->
            View(FALSE, FALSE, "none", << I("raise", "MyError", 0) >>)
      [] v = "sub_nest" ->
            View(FALSE, FALSE, "none",
                 << I("after", "cb2", 0), I("view", "internal", 1),
                    I("return", "nested", 0) >>)
      [] v = "sub_secret" ->
            View(TRUE, TRUE, "none", << I("return", "sub secret", 0) >>)
      [] OTHER -> \* standard_exception_view: return self
            View(FALSE, FALSE, "none", << I("self", "", 0) >>)

\* the status of the response made from a view's content (core.py lines 121-124):
\* Response(content) and the json/html renders answer 200; an application's
\* render for an error page sets the error status
RenderStatus(render) == IF render = "err500" THEN 500 ELSE 200

----------------------------------------------------------------------------
(* View dispatch *)

\* the registration of the nearest class in the method resolution order
Nearest(regs, cls) ==
    CHOOSE r \in regs :
        \A q \in regs : MroIndex(cls, r.model) <= MroIndex(cls, q.model)

\* (mutant) request_method is resolved before name
ViewComponentMethodFirst(lk, cls, name, request_method) ==
    LET byModel == { r \in Registrations : r.app = lk /\ r.model \in MroSet(cls) }
        byMethod == { r \in byModel : r.request_method = request_method }
        byName == { r \in byMethod : r.name = name }
    IN  IF byModel = {} THEN "obj_not_found"
        ELSE IF byMethod = {} THEN "method_not_allowed"
        ELSE IF byName = {} THEN "name_not_found"
        ELSE Nearest(byName, cls).view

\* generic.view.component(request, obj, lookup=...): the predicates model, name,
\* request_method in that order; the fallback of the first predicate that
\* matches nothing
ViewComponent(lk, cls, name, request_method) ==
    LET byModel == { r \in Registrations : r.app = lk /\ r.model \in MroSet(cls) }
        byName == { r \in byModel : r.name = name }
        byMethod == { r \in byName : r.request_method = request_method }
    IN  IF byModel = {} THEN "obj_not_found"
        ELSE IF byName = {} THEN "name_not_found"
        ELSE IF byMethod = {} THEN "method_not_allowed"
        ELSE Nearest(byMethod, cls).view

\* (mutant) a find that passes over internal views and views with a permission
ViewFindGuarded(a, cls, name) ==
    LET v == ViewComponent(LookupOf(a), cls, name, "GET")
    IN  IF v \in Fallbacks \/ ViewDef(v).internal \/ ViewDef(v).permission
        THEN "" ELSE v

\* generic.view.component_key_dict(lookup=app.lookup, model=cls, name=name):
\* request_method takes its default, GET; nothing found is None ("")
ViewFind(a, cls, name) ==
    LET v == ViewComponent(LookupOf(a), cls, name, "GET")
    IN  IF v \in Fallbacks THEN "" ELSE v

\* (mutant) get_response without the permission check of lines 111-114
GetResponseResultNoPermission(lk, cls, name, request_method, permits) ==
    LET view == ViewComponent(lk, cls, name, request_method)
    IN  IF view \in Fallbacks
        THEN IF view = "method_not_allowed"
             THEN [kind |-> "raise", view |-> view, exc |-> "HTTPMethodNotAllowed"]
             ELSE [kind |-> "none", view |-> view, exc |-> ""]
        ELSE IF ViewDef(view).internal
        THEN [kind |-> "none", view |-> view, exc |-> ""]
        ELSE [kind |-> "invoke", view |-> view, exc |-> ""]

\* (mutant) get_response without the internal check of line 109
GetResponseResultNoInternal(lk, cls, name, request_method, permits) ==
    LET view == ViewComponent(lk, cls, name, request_method)
    IN  IF view \in Fallbacks
        THEN IF view = "method_not_allowed"
             THEN [kind |-> "raise", view |-> view, exc |-> "HTTPMethodNotAllowed"]
             ELSE [kind |-> "none", view |-> view, exc |-> ""]
        ELSE IF ViewDef(view).permission /\ ~permits
        THEN [kind |-> "raise", view |-> view, exc |-> "HTTPForbidden"]
        ELSE [kind |-> "invoke", view |-> view, exc |-> ""]

\* get_response up to the call of the view: what it does with the component
GetResponseResult(lk, cls, name, request_method, permits) ==
    LET view == ViewComponent(lk, cls, name, request_method)
    IN  IF view \in Fallbacks
        THEN IF view = "method_not_allowed"
             THEN [kind |-> "raise", view |-> view, exc |-> "HTTPMethodNotAllowed"]
             ELSE [kind |-> "none", view |-> view, exc |-> ""]
        ELSE IF ViewDef(view).internal
        THEN [kind |-> "none", view |-> view, exc |-> ""]
        ELSE IF ViewDef(view).permission /\ ~permits
        THEN [kind |-> "raise", view |-> view, exc |-> "HTTPForbidden"]
        ELSE [kind |-> "invoke", view |-> view, exc |-> ""]

----------------------------------------------------------------------------
(* Request state *)

NoInfo == [ok |-> FALSE, path |-> << >>, params |-> {}]

\* passes counts the passes of the while loop of follow_defers
FdIdle == [pc |-> "idle", caller |-> "", app |-> NoApp, seen |-> {}, passes |-> 0,
           cls |-> "", name |-> "", view |-> "", info |-> NoInfo]

LnkIdle == [pc |-> "idle", app |-> NoApp, info |-> NoInfo, error |-> ""]

NoModel == [cls |-> "None", id |-> "", n |-> 0, param |-> ""]

PthIdle == [pc |-> "idle", cfg |-> "", traject |-> FALSE, context |-> FALSE,
            before |-> << >>, left |-> << >>, model |-> NoModel, path |-> << >>, params |-> "",
            again |-> NoModel]

Pending == [kind |-> "pending", status |-> 0, exc |-> ""]

\* no link through mounts is being made: every path on the chain is non-empty
MntIdle == [pc |-> "idle", app |-> NoApp, emptyModels |-> {}, emptyMounts |-> {},
            script |-> FALSE, info |-> NoInfo, core |-> NoInfo]

\* a value of one of the types that have a converter; the fields a type does
\* not have are 0: n for int, text for text, y m d for date, and H M S, the
\* microseconds and whether there is a tzinfo for datetime
Value(kind, n, text, y, m, d, H, M, S, us, aware) ==
    [kind |-> kind, n |-> n, text |-> text, y |-> y, m |-> m, d |-> d,
     H |-> H, M |-> M, S |-> S, us |-> us, aware |-> aware]

\* ValueError
NoValue == Value("ValueError", 0, << >>, 0, 0, 0, 0, 0, 0, 0, FALSE)

ConvIdle == [pc |-> "idle", value |-> NoValue, tz |-> "utc", encoded |-> << >>,
             decoded |-> NoValue]

\* request.identity before any access: policy and verify are what
\* generic.identify and generic.verify_identity answer now, value the reified
\* attribute, at the answers when it was computed, reads what accesses returned
IdentIdle == [pc |-> "idle", policy |-> "None", verify |-> FALSE, value |-> "unset",
              computed |-> 0, at |-> [policy |-> "", verify |-> FALSE],
              reads |-> << >>]

\* a Request object: the attributes Request.__init__ sets
RequestObject(a, st, cbs, cache) ==
    [app |-> a, lookup |-> LookupOf(a), unconsumed |-> st, after |-> cbs,
     link_prefix_cache |-> cache]

\* no request exists at this place
NoRequest == RequestObject(NoApp, << >>, << >>, {})

\* Request.resolve_path before it is called: objects are the Request objects
\* that exist, target the one resolve_model is given
SubIdle == [pc |-> "idle", objects |-> [o \in {"caller", "fresh"} |-> NoRequest],
            target |-> "", path |-> << >>, arg |-> SAME_APP, registers |-> FALSE,
            links |-> FALSE, before |-> NoRequest, result |-> NoModel,
            error |-> ""]

\* an identity policy instance: the factory that made it, and which of the
\* factory calls on the registry it was
Policy(factory, serial) == [factory |-> factory, serial |-> serial]

\* None, where an identity policy is expected
NoPolicy == Policy("None", 0)

\* IdentityPolicyRegistry.__init__: identity_policy is None; created counts the
\* calls of a factory, registered holds the calls of register_function
IprIdle == [pc |-> "idle", identity_policy |-> NoPolicy, created |-> 0,
            registered |-> << >>]

\* the workers that handle requests at the same time
Workers == {1, 2}

\* a request in the hands of a worker, in Request.view: the statement it is
\* at, request.app and request.lookup, the locals old_app and old_lookup, and
\* the application follow_defers found the view in
WorkerRequest(p, a, t) ==
    [pc |-> p, app |-> a, lookup |-> LookupOf(a), old_app |-> NoApp,
     old_lookup |-> LookupOf(NoApp), target |-> t]

WorkersIdle == [pc |-> "idle", req |-> [w \in Workers |-> WorkerRequest("idle", NoApp, NoApp)]]

\* the state of what a specification does not exercise
ExtIdle ==
    /\ mnt = MntIdle
    /\ cnv = ConvIdle
    /\ ident = IdentIdle
    /\ sub = SubIdle
    /\ ipr = IprIdle
    /\ workers = WorkersIdle

\* the frame of a view function being executed; old_app and old_lookup are the
\* locals of Request.view (meaningless in the frame get_response calls)
Frame(kind, v, cls) ==
    [kind |-> kind, v |-> v, cls |-> cls, ip |-> 1,
     old_app |-> app, old_lookup |-> lookup, e_implicit |-> implicit]

Top == stack[Len(stack)]

Instr == ViewDef(Top.v).script[Top.ip]

Running == pc = "run" /\ stack # << >> /\ fd.pc = "idle"

\* the caller's frame moves to its next statement
Advance(st) == [st EXCEPT ![Len(st)].ip = @ + 1]

\* Request.__init__ for a request that arrives at application a
RequestInit(a, cls, name, m, permits) ==
    /\ pc = "start"
    /\ mode = "handler"
    /\ app = a
    /\ lookup = LookupOf(a)
    /\ implicit = a
    /\ view_name = name
    /\ method = m
    /\ req = [app |-> a, cls |-> cls, name |-> name, method |-> m]
    /\ granted = permits
    /\ after = << >>
    /\ called = << >>
    /\ stack = << >>
    /\ invoked = << >>
    /\ outcome = Pending
    /\ exc = ""
    /\ cause = ""
    /\ exits = {}
    /\ got = << >>

\* generic.deferred_link_app as the applications of the request model configure it
ViewDefer == [a \in Apps |-> IF a = 3 THEN 2 ELSE NoApp]

\* the same, with applications 2 and 3 deferring to each other
ViewDeferCyclic == [a \in Apps |-> IF a = 3 THEN 2 ELSE IF a = 2 THEN 3 ELSE NoApp]

Init ==
    /\ \E a \in {1, 2}, cls \in {"Root", "Doc"}, name \in Names, m \in Methods,
          permits \in BOOLEAN :
          RequestInit(a, cls, name, m, permits)
    /\ fd = FdIdle
    /\ defer \in {ViewDefer, ViewDeferCyclic}
    /\ hasPath = {}
    /\ mountOk = {}
    /\ lnk = LnkIdle
    /\ unconsumed = << >>
    /\ query = ""
    /\ pth = PthIdle
    /\ ExtIdle

----------------------------------------------------------------------------
(* follow_defers and what it looks for *)

\* find(app, obj) of Request.view: the view of that application, or None
FindView(a, cls, name) ==
    [ok |-> ViewFind(a, cls, name) # "", view |-> ViewFind(a, cls, name),
     info |-> NoInfo]

\* (mutant) follow_defers without the check of the applications seen
FollowDefersIterNoSeen(s, found) ==
    IF s.app = NoApp THEN [s EXCEPT !.pc = "none"]
    ELSE IF found.ok
         THEN [s EXCEPT !.pc = "found", !.view = found.view, !.info = found.info,
                        !.passes = @ + 1]
         ELSE [s EXCEPT !.seen = @ \cup {s.app}, !.app = defer[s.app],
                        !.passes = @ + 1]

\* (mutant) follow_defers asking generic.deferred_link_app before find: an
\* application that defers is passed over
FollowDefersIterEager(s, found) ==
    IF s.app = NoApp THEN [s EXCEPT !.pc = "none"]
    ELSE IF s.app \in s.seen THEN [s EXCEPT !.pc = "circular", !.passes = @ + 1]
    ELSE IF found.ok /\ defer[s.app] = NoApp
         THEN [s EXCEPT !.pc = "found", !.view = found.view, !.info = found.info,
                        !.passes = @ + 1]
         ELSE [s EXCEPT !.seen = @ \cup {s.app}, !.app = defer[s.app],
                        !.passes = @ + 1]

\* one pass of the while loop of follow_defers
FollowDefersIter(s, found) ==
    IF s.app = NoApp THEN [s EXCEPT !.pc = "none"]
    ELSE IF s.app \in s.seen THEN [s EXCEPT !.pc = "circular", !.passes = @ + 1]
    ELSE IF found.ok
         THEN [s EXCEPT !.pc = "found", !.view = found.view, !.info = found.info,
                        !.passes = @ + 1]
         ELSE [s EXCEPT !.seen = @ \cup {s.app}, !.app = defer[s.app],
                        !.passes = @ + 1]

----------------------------------------------------------------------------
(* Links: generic.path, mounted_link, link *)

\* a piece of a path string: a path segment or the "/" between segments
Seg(t, n) == [t |-> t, n |-> n]

Slash == Seg("/", 0)

\* the path generic.path gives for the model object in application a; '' where
\* the model is registered with the empty path
ModelPath(a) == IF a \in mnt.emptyModels THEN << >> ELSE << Seg("model", a) >>

ModelParams(a) == { [key |-> 0, val |-> a] }

\* the path generic.path gives in the parent for the mounted application a; ''
\* where the application is mounted at the empty path
MountPath(a) == IF a \in mnt.emptyMounts THEN << >> ELSE << Seg("mount", a) >>

MountParams(a) == { [key |-> a, val |-> a] }

\* app.parent: application a is mounted in application a - 1, application 1 is
\* the root
ParentOf(a) == IF a = 1 THEN NoApp ELSE a - 1

\* dict.update
Update(d, e) == { x \in d : \A y \in e : y.key # x.key } \cup e

RECURSIVE Reverse(_)
Reverse(l) == IF l = << >> THEN << >> ELSE Append(Reverse(Tail(l)), Head(l))

\* '/'.join(result)
RECURSIVE Join(_)
Join(l) ==
    IF l = << >> THEN << >>
    ELSE IF Len(l) = 1 THEN l[1]
    ELSE l[1] \o << Slash >> \o Join(Tail(l))

RECURSIVE LStrip(_)
LStrip(p) == IF p # << >> /\ Head(p) = Slash THEN LStrip(Tail(p)) ELSE p

\* .strip('/')
Strip(p) == Reverse(LStrip(Reverse(LStrip(p))))

\* (mutant) an ancestor without a path for the mounted application is skipped
RECURSIVE MountedLinkSkipping(_, _, _, _)
MountedLinkSkipping(result, parameters, obj, a) ==
    IF a = NoApp
    THEN [ok |-> TRUE, path |-> Strip(Join(Reverse(result))), params |-> parameters]
    ELSE IF obj \notin mountOk
    THEN MountedLinkSkipping(result, parameters, a, ParentOf(a))
    ELSE MountedLinkSkipping(Append(result, MountPath(obj)),
                             Update(parameters, MountParams(obj)), a, ParentOf(a))

\* (mutant) mounted_link without result.reverse()
RECURSIVE MountedLinkUnreversed(_, _, _, _)
MountedLinkUnreversed(result, parameters, obj, a) ==
    IF a = NoApp
    THEN [ok |-> TRUE, path |-> Strip(Join(result)), params |-> parameters]
    ELSE IF obj \notin mountOk
    THEN NoInfo
    ELSE MountedLinkUnreversed(Append(result, MountPath(obj)),
                               Update(parameters, MountParams(obj)), a, ParentOf(a))

\* mounted_link from its while loop on: result, parameters, obj, app
RECURSIVE MountedLinkLoop(_, _, _, _)
MountedLinkLoop(result, parameters, obj, a) ==
    IF a = NoApp
    THEN [ok |-> TRUE, path |-> Strip(Join(Reverse(result))), params |-> parameters]
    ELSE IF obj \notin mountOk
    THEN NoInfo
    ELSE MountedLinkLoop(Append(result, MountPath(obj)),
                         Update(parameters, MountParams(obj)), a, ParentOf(a))

MountedLink(path, parameters, a) ==
    MountedLinkLoop(<< path >>, parameters, a, ParentOf(a))

\* link(obj, app)
Link(a) ==
    IF a \notin hasPath THEN NoInfo
    ELSE MountedLink(ModelPath(a), ModelParams(a), a)

\* find(app, obj) of Request.link
FindLink(a) == [ok |-> Link(a).ok, view |-> "", info |-> Link(a)]

\* request.script_name: '' or '/script'
ScriptName(script) == IF script THEN << Slash, Seg("script", 0) >> ELSE << >>

\* path, params = generic.path(...) where generic.path gave None: TypeError
CoreCrash == [ok |-> FALSE, path |-> << Seg("TypeError", 0) >>, params |-> {}]

\* the while loop of link in core.py: obj is the model (NoApp) or the mounted
\* application below, mounted the application whose lookup is asked
RECURSIVE CoreLinkLoop(_, _, _, _, _)
CoreLinkLoop(result, parameters, obj, mounted, script) ==
    IF mounted = NoApp
    THEN [ok |-> TRUE,
          path |-> Strip(Join(Reverse(Append(result, ScriptName(script))))),
          params |-> parameters]
    ELSE IF obj = NoApp
    THEN IF mounted \notin hasPath THEN CoreCrash
         ELSE CoreLinkLoop(Append(result, ModelPath(mounted)),
                           Update(parameters, ModelParams(mounted)),
                           mounted, ParentOf(mounted), script)
    ELSE IF obj \notin mountOk THEN CoreCrash
         ELSE CoreLinkLoop(Append(result, MountPath(obj)),
                           Update(parameters, MountParams(obj)),
                           mounted, ParentOf(mounted), script)

\* link(request, model, mounted) of core.py
CoreLink(a, script) == CoreLinkLoop(<< >>, {}, NoApp, a, script)

----------------------------------------------------------------------------
(* excview_tween, get_response and Request.view *)

Crash(x) == [kind |-> "crash", status |-> 0, exc |-> x]

Responded(status) == [kind |-> "response", status |-> status, exc |-> ""]

\* what the handler does with a response of None: it raises HTTPNotFound
NoneResponse == "HTTPNotFound"

\* request.run_after(response)
RunAfter(cbs, status) == [i \in 1..Len(cbs) |-> [cb |-> cbs[i], status |-> status]]

\* the exits of the Request.view calls an exception passes through: no statement
\* of Request.view runs after line 141
ExitsByRaise(st) ==
    { [v |-> st[i].v, how |-> "raise",
       before |-> << st[i].old_app, st[i].old_lookup, st[i].e_implicit >>,
       after |-> << app, lookup, implicit >>] :
      i \in { j \in 1..Len(st) : st[j].kind = "view" } }

\* an exception leaves every view function on the stack; in the except branch
\* of the tween nothing catches it
Raise(x) ==
    /\ exits' = exits \cup ExitsByRaise(stack)
    /\ stack' = << >>
    /\ exc' = x
    /\ IF mode = "handler"
       THEN pc' = "raised" /\ outcome' = outcome
       ELSE pc' = "done" /\ outcome' = Crash(x)

\* response = handler(request): get_response for the model object, to the call
\* of the view
TweenHandler ==
    /\ pc = "start"
    /\ LET r == GetResponseResult(lookup, req.cls, view_name, method, granted)
       IN  CASE r.kind = "invoke" ->
                  /\ pc' = "run"
                  /\ stack' = << Frame("response", r.view, req.cls) >>
                  /\ invoked' = Append(invoked, [v |-> r.view, by |-> "get_response"])
                  /\ UNCHANGED << exc, cause >>
             [] r.kind = "none" ->
                  /\ pc' = "raised"
                  /\ exc' = NoneResponse
                  /\ cause' = "nonmatch"
                  /\ UNCHANGED << stack, invoked >>
             [] OTHER ->
                  /\ pc' = "raised"
                  /\ exc' = r.exc
                  /\ cause' = IF r.exc = "HTTPForbidden" THEN "forbidden" ELSE "method"
                  /\ UNCHANGED << stack, invoked >>
    /\ UNCHANGED << mode, app, lookup, implicit, view_name, method, req, granted,
                    after, called, outcome, exits, got, fd, defer, hasPath,
                    mountOk, lnk, pathVars, extVars >>

\* except Exception as exc: get_response for the exception
TweenExcept ==
    /\ pc = "raised"
    /\ mode = "handler"
    /\ mode' = "excview"
    /\ view_name' = ""
    /\ method' = "GET"
    /\ LET r == GetResponseResult(lookup, exc, "", "GET", granted)
       IN  CASE r.kind = "invoke" ->
                  /\ pc' = "run"
                  /\ stack' = << Frame("response", r.view, exc) >>
                  /\ invoked' = Append(invoked, [v |-> r.view, by |-> "get_response"])
                  /\ UNCHANGED << exc, outcome >>
             [] r.kind = "none" ->
                  /\ pc' = "done"
                  /\ outcome' = Crash(exc)
                  /\ UNCHANGED << stack, invoked, exc >>
             [] OTHER ->
                  /\ pc' = "done"
                  /\ outcome' = Crash(r.exc)
                  /\ exc' = r.exc
                  /\ UNCHANGED << stack, invoked >>
    /\ UNCHANGED << app, lookup, implicit, req, granted, after, called, cause,
                    exits, got, fd, defer, hasPath, mountOk, lnk, pathVars, extVars >>

\* request.after(func)
DoAfter ==
    /\ Running
    /\ Instr.op = "after"
    /\ after' = Append(after, Instr.arg)
    /\ stack' = Advance(stack)
    /\ UNCHANGED << pc, mode, app, lookup, implicit, view_name, method, req,
                    granted, called, invoked, outcome, exc, cause, exits, got,
                    fd, defer, hasPath, mountOk, lnk, pathVars, extVars >>

\* request.view(self, name=..., app=...) to the call of follow_defers
DoViewCall ==
    /\ Running
    /\ Instr.op = "view"
    /\ fd' = [FdIdle EXCEPT !.pc = "loop", !.caller = "view",
                            !.app = IF Instr.n = SAME_APP THEN app ELSE Instr.n,
                            !.cls = Top.cls, !.name = Instr.arg]
    /\ UNCHANGED << reqVars, defer, hasPath, mountOk, lnk, pathVars, extVars >>

\* a pass of follow_defers for Request.view
FollowDefersView ==
    /\ fd.pc = "loop"
    /\ fd.caller = "view"
    /\ fd' = FollowDefersIter(fd, FindView(fd.app, fd.cls, fd.name))
    /\ UNCHANGED << reqVars, defer, hasPath, mountOk, lnk, pathVars, extVars >>

\* Request.view from the return of follow_defers to the call of view.func
ViewEnter ==
    /\ pc = "run"
    /\ fd.caller = "view"
    /\ fd.pc = "found"
    /\ stack' = Append(stack, Frame("view", fd.view, fd.cls))
    /\ implicit' = fd.app
    /\ app' = fd.app
    /\ lookup' = LookupOf(fd.app)
    /\ invoked' = Append(invoked, [v |-> fd.view, by |-> "Request.view"])
    /\ fd' = FdIdle
    /\ UNCHANGED << pc, mode, view_name, method, req, granted, after, called,
                    outcome, exc, cause, exits, got, defer, hasPath, mountOk, lnk, pathVars, extVars >>

\* Request.view: no view found, return default
ViewDefault ==
    /\ pc = "run"
    /\ fd.caller = "view"
    /\ fd.pc = "none"
    /\ got' = Append(got, [v |-> "", value |-> "default"])
    /\ stack' = Advance(stack)
    /\ fd' = FdIdle
    /\ UNCHANGED << pc, mode, app, lookup, implicit, view_name, method, req,
                    granted, after, called, invoked, outcome, exc, cause, exits,
                    defer, hasPath, mountOk, lnk, pathVars, extVars >>

\* Request.view: follow_defers raised LinkError
ViewCircular ==
    /\ pc = "run"
    /\ fd.caller = "view"
    /\ fd.pc = "circular"
    /\ Raise("LinkError")
    /\ fd' = FdIdle
    /\ UNCHANGED << mode, app, lookup, implicit, view_name, method, req, granted,
                    after, called, invoked, cause, got, defer, hasPath, mountOk,
                    lnk, pathVars, extVars >>

\* what a view function returns
Returned(frame, ins) ==
    IF ins.op = "return" THEN ins.arg
    ELSE IF ins.op = "self" THEN frame.cls
    ELSE "response"

\* Request.view after view.func returned: lines 142-145
ViewReturn ==
    /\ Running
    /\ Top.kind = "view"
    /\ Instr.op \in {"return", "respond", "self"}
    /\ implicit' = Top.old_app
    /\ app' = Top.old_app
    /\ lookup' = Top.old_lookup
    /\ got' = Append(got, [v |-> Top.v, value |-> Returned(Top, Instr)])
    /\ exits' = exits \cup
                  { [v |-> Top.v, how |-> "return",
                     before |-> << Top.old_app, Top.old_lookup, Top.e_implicit >>,
                     after |-> << app', lookup', implicit' >>] }
    /\ stack' = Advance(SubSeq(stack, 1, Len(stack) - 1))
    /\ UNCHANGED << pc, mode, view_name, method, req, granted, after, called,
                    invoked, outcome, exc, cause, fd, defer, hasPath, mountOk, lnk, pathVars, extVars >>

\* get_response after the view returned content: render it, run the callbacks
ResponseRendered ==
    /\ Running
    /\ Top.kind = "response"
    /\ Instr.op = "return"
    /\ LET status == RenderStatus(ViewDef(Top.v).render)
       IN  /\ called' = called \o RunAfter(after, status)
           /\ outcome' = Responded(status)
    /\ pc' = "done"
    /\ stack' = << >>
    /\ UNCHANGED << mode, app, lookup, implicit, view_name, method, req, granted,
                    after, invoked, exc, cause, exits, got, fd, defer, hasPath,
                    mountOk, lnk, pathVars, extVars >>

\* get_response after the view returned a response: the view took full control
ResponseDirect ==
    /\ Running
    /\ Top.kind = "response"
    /\ Instr.op \in {"respond", "self"}
    /\ outcome' = Responded(IF Instr.op = "self" THEN ExcStatus(Top.cls) ELSE Instr.n)
    /\ pc' = "done"
    /\ stack' = << >>
    /\ UNCHANGED << mode, app, lookup, implicit, view_name, method, req, granted,
                    after, called, invoked, exc, cause, exits, got, fd, defer,
                    hasPath, mountOk, lnk, pathVars, extVars >>

\* a view function raises
DoRaise ==
    /\ Running
    /\ Instr.op = "raise"
    /\ Raise(Instr.arg)
    /\ UNCHANGED << mode, app, lookup, implicit, view_name, method, req, granted,
                    after, called, invoked, cause, got, fd, defer, hasPath,
                    mountOk, lnk, pathVars, extVars >>

Next ==
    \/ TweenHandler
    \/ TweenExcept
    \/ DoAfter
    \/ DoViewCall
    \/ FollowDefersView
    \/ ViewEnter
    \/ ViewDefault
    \/ ViewCircular
    \/ ViewReturn
    \/ ResponseRendered
    \/ ResponseDirect
    \/ DoRaise

Spec == Init /\ [][Next]_vars

----------------------------------------------------------------------------
(* Request.link *)

\* Request.link(obj, app=arg) to the call of follow_defers
LinkCall ==
    /\ lnk.pc = "idle"
    /\ pc = "link"
    /\ \E arg \in {SAME_APP, NoApp} \cup Apps :
          IF arg = NoApp
          THEN /\ lnk' = [lnk EXCEPT !.pc = "done", !.error = "LinkError"]
               /\ fd' = fd
          ELSE /\ lnk' = [lnk EXCEPT !.pc = "called",
                                     !.app = IF arg = SAME_APP THEN app ELSE arg]
               /\ fd' = [FdIdle EXCEPT !.pc = "loop", !.caller = "link",
                                       !.app = IF arg = SAME_APP THEN app ELSE arg]
    /\ UNCHANGED << reqVars, defer, hasPath, mountOk, pathVars, extVars >>

\* a pass of follow_defers for Request.link
FollowDefersLink ==
    /\ fd.pc = "loop"
    /\ fd.caller = "link"
    /\ fd' = FollowDefersIter(fd, FindLink(fd.app))
    /\ UNCHANGED << reqVars, defer, hasPath, mountOk, lnk, pathVars, extVars >>

\* Request.link from the return of follow_defers: lines 185-191
LinkReturn ==
    /\ lnk.pc = "called"
    /\ fd.caller = "link"
    /\ fd.pc \in {"found", "none", "circular"}
    /\ lnk' = IF fd.pc = "found"
              THEN [lnk EXCEPT !.pc = "done", !.info = fd.info]
              ELSE [lnk EXCEPT !.pc = "done", !.error = "LinkError"]
    /\ UNCHANGED << reqVars, fd, defer, hasPath, mountOk, pathVars, extVars >>

InitLink ==
    /\ pc = "link"
    /\ mode = "handler"
    /\ app = 2
    /\ lookup = LookupOf(app)
    /\ implicit = app
    /\ view_name = ""
    /\ method = "GET"
    /\ req = [app |-> app, cls |-> "Root", name |-> "", method |-> "GET"]
    /\ granted = FALSE
    /\ after = << >>
    /\ called = << >>
    /\ stack = << >>
    /\ invoked = << >>
    /\ outcome = Pending
    /\ exc = ""
    /\ cause = ""
    /\ exits = {}
    /\ got = << >>
    /\ fd = FdIdle
    /\ defer \in [Apps -> Apps \cup {NoApp}]
    /\ hasPath \in SUBSET Apps
    /\ mountOk \in SUBSET (Apps \ {1})
    /\ lnk = LnkIdle
    /\ unconsumed = << >>
    /\ query = ""
    /\ pth = PthIdle
    /\ ExtIdle

NextLink ==
    \/ LinkCall
    \/ FollowDefersLink
    \/ LinkReturn

SpecLink == InitLink /\ [][NextLink]_vars

----------------------------------------------------------------------------
(* follow_defers under both of its callers *)

InitDefer == Init \/ InitLink

NextDefer == Next \/ NextLink

\* requests that are published, their views calling Request.view, and calls of
\* Request.link
SpecDefer == InitDefer /\ [][NextDefer]_vars

----------------------------------------------------------------------------
(* Links through a chain of mounts *)

\* a request in application a that is not being published: Request.__init__
Quiet(p, a) ==
    /\ pc = p
    /\ mode = "handler"
    /\ app = a
    /\ lookup = LookupOf(a)
    /\ implicit = a
    /\ view_name = ""
    /\ method = "GET"
    /\ req = [app |-> a, cls |-> "Root", name |-> "", method |-> "GET"]
    /\ granted = FALSE
    /\ after = << >>
    /\ called = << >>
    /\ stack = << >>
    /\ invoked = << >>
    /\ outcome = Pending
    /\ exc = ""
    /\ cause = ""
    /\ exits = {}
    /\ got = << >>
    /\ fd = FdIdle
    /\ defer = ViewDefer
    /\ lnk = LnkIdle
    /\ unconsumed = << >>
    /\ query = ""
    /\ pth = PthIdle

\* link(obj, app) of request.py for the model in application mnt.app
MountLinkCall ==
    /\ mnt.pc = "start"
    /\ mnt' = [mnt EXCEPT !.pc = "linked", !.info = Link(mnt.app)]
    /\ UNCHANGED << reqVars, fd, defer, hasPath, mountOk, lnk, pathVars,
                    cnv, ident, sub, ipr, workers >>

\* link(request, model, mounted) of core.py for the same model
CoreLinkCall ==
    /\ mnt.pc = "linked"
    /\ mnt' = [mnt EXCEPT !.pc = "done", !.core = CoreLink(mnt.app, mnt.script)]
    /\ UNCHANGED << reqVars, fd, defer, hasPath, mountOk, lnk, pathVars,
                    cnv, ident, sub, ipr, workers >>

\* every application has a path for the model and every mount has a path in its
\* parent; any of these paths can be the empty path
InitMount ==
    /\ Quiet("mount", 1)
    /\ hasPath = Apps
    /\ mountOk = Apps \ {1}
    /\ \E a \in Apps, em \in SUBSET Apps, et \in SUBSET (Apps \ {1}), sc \in BOOLEAN :
          mnt = [MntIdle EXCEPT !.pc = "start", !.app = a, !.emptyModels = em,
                                !.emptyMounts = et, !.script = sc]
    /\ cnv = ConvIdle
    /\ ident = IdentIdle
    /\ sub = SubIdle
    /\ ipr = IprIdle
    /\ workers = WorkersIdle

NextMount ==
    \/ MountLinkCall
    \/ CoreLinkCall

SpecMount == InitMount /\ [][NextMount]_vars

----------------------------------------------------------------------------
(* Paths: the routes, the routing trie, generic.path and traject_consume *)

MaxSegs == 2

\* the largest integer converted
MaxInt == 12

\* the accesses of request.identity in one request
MaxReads == 3

\* the calls of register_identity_policy_function on one registry
MaxRegistrations == 3

\* the path segments requests are made of
Segs == {"a", "b", "x", "docs", "7", "07"}

Stacks == UNION { [1..k -> Segs] : k \in 0..MaxSegs }

\* int(s) of the integer converter: the value, or -1 for ValueError
DecodeInt(s) == IF s \in {"7", "07"} THEN 7 ELSE -1

\* str(n)
EncodeInt(n) == IF n = 7 THEN "7" ELSE "?"

Lit(s) == [lit |-> TRUE, s |-> s, conv |-> ""]

Var(name, conv) == [lit |-> FALSE, s |-> name, conv |-> conv]

\* the registered paths: '' for Root, '{id}' for Model, 'docs/{n}' (n an int)
\* for Doc; with cfg "params" the factory of Model also takes param='default'
Routes ==
    { [pattern |-> << >>, cls |-> "Root"],
      [pattern |-> << Var("id", "text") >>, cls |-> "Model"],
      [pattern |-> << Lit("docs"), Var("n", "int") >>, cls |-> "Doc"] }

\* the ids for which the factory of Model returns None
Missing == {"x"}

IsPrefix(p, q) == Len(p) <= Len(q) /\ SubSeq(q, 1, Len(p)) = p

\* the steps that lead from a trie node (a prefix of patterns) to its children
Children(node) ==
    { r.pattern[Len(node) + 1] :
        r \in { q \in Routes : IsPrefix(node, q.pattern) /\ Len(q.pattern) > Len(node) } }

\* the route that ends at a node: its class, or "None"
RouteAt(node) ==
    IF \E r \in Routes : r.pattern = node
    THEN (CHOOSE r \in Routes : r.pattern = node).cls
    ELSE "None"

\* a variable step matches a segment its converter decodes: a segment that does
\* not decode is no match in the trie
Decodes(step, seg) == step.conv = "text" \/ DecodeInt(seg) # -1

Bind(variables, step, seg) ==
    IF step.s = "id" THEN [variables EXCEPT !.id = seg]
    ELSE [variables EXCEPT !.n = DecodeInt(seg)]

\* traject.consume(stack): a literal child before the variable child; where no
\* child matches, the route of the node reached and the stack that is left
RECURSIVE TrieConsume(_, _, _)
TrieConsume(node, st, variables) ==
    IF st = << >>
    THEN [value |-> RouteAt(node), stack |-> st, variables |-> variables]
    ELSE LET lits == { c \in Children(node) : c.lit /\ c.s = Head(st) }
             vs == { c \in Children(node) : ~c.lit /\ Decodes(c, Head(st)) }
         IN  IF lits # {}
             THEN TrieConsume(Append(node, CHOOSE c \in lits : TRUE), Tail(st), variables)
             ELSE IF vs # {}
             THEN LET c == CHOOSE c \in vs : TRUE
                  IN  TrieConsume(Append(node, c), Tail(st), Bind(variables, c, Head(st)))
             ELSE [value |-> RouteAt(node), stack |-> st, variables |-> variables]

\* get_parameters(request.GET): the query variables of the route, with defaults
GetParameters(cfg, cls, q) ==
    IF cfg = "params" /\ cls = "Model"
    THEN IF q = "" THEN "default" ELSE q
    ELSE ""

\* mapply(get_model, **variables): the model factory of the route
GetModel(cls, variables, param) ==
    IF cls = "Model" /\ variables.id \in Missing THEN NoModel
    ELSE [cls |-> cls, id |-> variables.id, n |-> variables.n, param |-> param]

\* (mutant) traject_consume without variables.update(traject_variables)
TrajectConsumeNoVariables(cfg, traject, context, st, q) ==
    LET c == TrieConsume(<< >>, st, [id |-> "", n |-> 0])
        next_model == GetModel(c.value, [id |-> "", n |-> 0],
                               GetParameters(cfg, c.value, q))
    IN  IF ~traject \/ c.value = "None" \/ ~context \/ next_model = NoModel
        THEN [model |-> NoModel, unconsumed |-> st]
        ELSE [model |-> next_model, unconsumed |-> c.stack]

\* (mutant) traject_consume without get_parameters(request.GET): the factory
\* takes its defaults
TrajectConsumeNoQuery(cfg, traject, context, st, q) ==
    LET c == TrieConsume(<< >>, st, [id |-> "", n |-> 0])
        next_model == GetModel(c.value, c.variables, GetParameters(cfg, c.value, ""))
    IN  IF ~traject \/ c.value = "None" \/ ~context \/ next_model = NoModel
        THEN [model |-> NoModel, unconsumed |-> st]
        ELSE [model |-> next_model, unconsumed |-> c.stack]

\* (mutant) traject_consume with request.unconsumed = stack moved before the
\* checks of context and next_model
TrajectConsumeEarlyAssign(cfg, traject, context, st, q) ==
    IF ~traject THEN [model |-> NoModel, unconsumed |-> st]
    ELSE LET c == TrieConsume(<< >>, st, [id |-> "", n |-> 0])
             next_model == GetModel(c.value, c.variables, GetParameters(cfg, c.value, q))
         IN  IF c.value = "None" THEN [model |-> NoModel, unconsumed |-> st]
             ELSE IF ~context \/ next_model = NoModel
             THEN [model |-> NoModel, unconsumed |-> c.stack]
             ELSE [model |-> next_model, unconsumed |-> c.stack]

\* traject_consume(request, model, lookup): the model, and request.unconsumed
\* after the call
TrajectConsume(cfg, traject, context, st, q) ==
    IF ~traject THEN [model |-> NoModel, unconsumed |-> st]
    ELSE LET c == TrieConsume(<< >>, st, [id |-> "", n |-> 0])
         IN  IF c.value = "None" THEN [model |-> NoModel, unconsumed |-> st]
             ELSE IF ~context THEN [model |-> NoModel, unconsumed |-> st]
             ELSE LET next_model ==
                          GetModel(c.value, c.variables, GetParameters(cfg, c.value, q))
                  IN  IF next_model = NoModel
                      THEN [model |-> NoModel, unconsumed |-> st]
                      ELSE [model |-> next_model, unconsumed |-> c.stack]

\* the segment a step of the pattern gives for the variables of the model
Interpolate(step, m) ==
    IF step.lit THEN step.s
    ELSE IF step.s = "id" THEN m.id
    ELSE EncodeInt(m.n)

\* generic.path(model, lookup=...): the pattern of the class with the variables
\* of the model, and the variables the pattern does not use as parameters
ModelPathOf(cfg, m) ==
    LET r == CHOOSE r \in Routes : r.cls = m.cls
    IN  [path |-> [i \in 1..Len(r.pattern) |-> Interpolate(r.pattern[i], m)],
         params |-> IF cfg = "params" /\ m.cls = "Model" THEN m.param ELSE ""]

\* consume(app, request): traject_consume for the request
Consume ==
    /\ pth.pc = "start"
    /\ LET r == TrajectConsume(pth.cfg, pth.traject, pth.context, unconsumed, query)
       IN  /\ unconsumed' = r.unconsumed
           /\ pth' = [pth EXCEPT !.pc = IF r.model = NoModel THEN "failed" ELSE "consumed",
                                 !.model = r.model, !.left = r.unconsumed]
    /\ UNCHANGED << reqVars, fd, defer, hasPath, mountOk, lnk, query, extVars >>

\* generic.path for the model consumed
BuildPath ==
    /\ pth.pc = "consumed"
    /\ LET info == ModelPathOf(pth.cfg, pth.model)
       IN  pth' = [pth EXCEPT !.pc = "built", !.path = info.path, !.params = info.params]
    /\ UNCHANGED << reqVars, fd, defer, hasPath, mountOk, lnk, unconsumed, query, extVars >>

\* a request for the path built, with its parameters, consumed again
ConsumeAgain ==
    /\ pth.pc = "built"
    /\ LET r == TrajectConsume(pth.cfg, pth.traject, pth.context, pth.path, pth.params)
       IN  /\ unconsumed' = r.unconsumed
           /\ query' = pth.params
           /\ pth' = [pth EXCEPT !.pc = "again", !.again = r.model]
    /\ UNCHANGED << reqVars, fd, defer, hasPath, mountOk, lnk, extVars >>

InitPath ==
    /\ pc = "path"
    /\ mode = "handler"
    /\ app = 1
    /\ lookup = LookupOf(app)
    /\ implicit = app
    /\ view_name = ""
    /\ method = "GET"
    /\ req = [app |-> app, cls |-> "Root", name |-> "", method |-> "GET"]
    /\ granted = FALSE
    /\ after = << >>
    /\ called = << >>
    /\ stack = << >>
    /\ invoked = << >>
    /\ outcome = Pending
    /\ exc = ""
    /\ cause = ""
    /\ exits = {}
    /\ got = << >>
    /\ fd = FdIdle
    /\ defer = ViewDefer
    /\ hasPath = {}
    /\ mountOk = {}
    /\ lnk = LnkIdle
    /\ unconsumed \in Stacks
    /\ query \in {"", "value", "other"}
    /\ \E cfg \in {"plain", "params"}, traject \in BOOLEAN, context \in BOOLEAN :
          pth = [PthIdle EXCEPT !.pc = "start", !.cfg = cfg, !.traject = traject,
                                !.context = context, !.before = unconsumed]
    /\ ExtIdle

NextPath ==
    \/ Consume
    \/ BuildPath
    \/ ConsumeAgain

SpecPath == InitPath /\ [][NextPath]_vars

----------------------------------------------------------------------------
(* The converters of core.py: strings are sequences of characters *)

Digit(n) == << "0", "1", "2", "3", "4", "5", "6", "7", "8", "9" >>[n + 1]

DigitChars == { Digit(i) : i \in 0..9 }

DigitVal(c) == CHOOSE i \in 0..9 : Digit(i) = c

IsDigits(str) == str # << >> /\ \A i \in 1..Len(str) : str[i] \in DigitChars

\* the decimal digits of a natural number
RECURSIVE NatStr(_)
NatStr(n) == IF n < 10 THEN << Digit(n) >> ELSE NatStr(n \div 10) \o << Digit(n % 10) >>

\* the natural number a string of digits denotes
RECURSIVE StrNat(_)
StrNat(str) ==
    IF str = << >> THEN 0
    ELSE StrNat(SubSeq(str, 1, Len(str) - 1)) * 10 + DigitVal(str[Len(str)])

\* %Y, %m, %d, %H, %M, %S of strftime: zero-padded to the width
Pad(n, w) ==
    LET t == NatStr(n)
    IN  IF Len(t) >= w THEN t ELSE [i \in 1..(w - Len(t)) |-> "0"] \o t

\* str(n), the encode of Converter(int)
IntEncode(v) == IF v.n < 0 THEN << "-" >> \o NatStr(-v.n) ELSE NatStr(v.n)

\* int(s), the decode of Converter(int)
IntDecode(str) ==
    IF IsDigits(str) THEN Value("int", StrNat(str), << >>, 0, 0, 0, 0, 0, 0, 0, FALSE)
    ELSE IF str # << >> /\ Head(str) = "-" /\ IsDigits(Tail(str))
    THEN Value("int", -StrNat(Tail(str)), << >>, 0, 0, 0, 0, 0, 0, 0, FALSE)
    ELSE NoValue

\* IDENTITY_CONVERTER
IdentityEncode(v) == v.text

IdentityDecode(str) == Value("text", 0, str, 0, 0, 0, 0, 0, 0, 0, FALSE)

\* the local times that do not exist in a time zone: the hour skipped when the
\* clocks go forward, at 02:00 or at midnight of 30 March 2024
InGap(tz, t) ==
    /\ t.y = 2024 /\ t.m = 3 /\ t.d = 30
    /\ \/ tz = "gap2" /\ t.H = 2
       \/ tz = "gap0" /\ t.H = 0

\* fromtimestamp(mktime(t)): a local time that exists comes back as it is; one
\* in the gap comes back an hour later or an hour earlier (dir), as mktime
\* resolves it; the timestamp holds whole seconds and no time zone
LocalTime(t, tz, dir) ==
    IF ~InGap(tz, t) THEN t
    ELSE IF dir = 1 THEN [t EXCEPT !.H = @ + 1]
    ELSE IF t.H = 0 THEN [t EXCEPT !.d = @ - 1, !.H = 23]
    ELSE [t EXCEPT !.H = @ - 1]

\* date_encode: d.strftime('%Y%m%d')
DateEncode(v) == Pad(v.y, 4) \o Pad(v.m, 2) \o Pad(v.d, 2)

\* date_decode: date.fromtimestamp(mktime(strptime(s, '%Y%m%d')))
DateDecode(str, tz, dir) ==
    IF ~(Len(str) = 8 /\ IsDigits(str)) THEN NoValue
    ELSE LET t == Value("date", 0, << >>, StrNat(SubSeq(str, 1, 4)),
                        StrNat(SubSeq(str, 5, 6)), StrNat(SubSeq(str, 7, 8)),
                        0, 0, 0, 0, FALSE)
             l == LocalTime(t, tz, dir)
         IN  [l EXCEPT !.H = 0, !.M = 0, !.S = 0]

\* datetime_encode: d.strftime('%Y%m%dT%H%M%S')
DatetimeEncode(v) ==
    Pad(v.y, 4) \o Pad(v.m, 2) \o Pad(v.d, 2) \o << "T" >>
        \o Pad(v.H, 2) \o Pad(v.M, 2) \o Pad(v.S, 2)

\* datetime_decode: datetime.fromtimestamp(mktime(strptime(s, '%Y%m%dT%H%M%S')))
DatetimeDecode(str, tz, dir) ==
    IF ~(Len(str) = 15 /\ IsDigits(SubSeq(str, 1, 8)) /\ str[9] = "T"
           /\ IsDigits(SubSeq(str, 10, 15)))
    THEN NoValue
    ELSE LocalTime(Value("datetime", 0, << >>, StrNat(SubSeq(str, 1, 4)),
                         StrNat(SubSeq(str, 5, 6)), StrNat(SubSeq(str, 7, 8)),
                         StrNat(SubSeq(str, 10, 11)), StrNat(SubSeq(str, 12, 13)),
                         StrNat(SubSeq(str, 14, 15)), 0, FALSE),
                   tz, dir)

\* converter.encode of the converter registered for the type of the value
Encode(v) ==
    CASE v.kind = "int" -> IntEncode(v)
      [] v.kind = "text" -> IdentityEncode(v)
      [] v.kind = "date" -> DateEncode(v)
      [] OTHER -> DatetimeEncode(v)

\* converter.decode of the converter registered for the type
Decode(kind, str, tz, dir) ==
    CASE kind = "int" -> IntDecode(str)
      [] kind = "text" -> IdentityDecode(str)
      [] kind = "date" -> DateDecode(str, tz, dir)
      [] OTHER -> DatetimeDecode(str, tz, dir)

\* the values converted: integers, texts, dates and datetimes
IntValues == { Value("int", n, << >>, 0, 0, 0, 0, 0, 0, 0, FALSE) : n \in (-MaxInt)..MaxInt }

TextValues ==
    { Value("text", 0, t, 0, 0, 0, 0, 0, 0, 0, FALSE) :
        t \in { << >>, << "a" >>, << "0", "7" >>, << "-" >> } }

DateValues ==
    { Value("date", 0, << >>, y, m, d, 0, 0, 0, 0, FALSE) :
        y \in {1999, 2024}, m \in {3, 12}, d \in {1, 30} }

DatetimeValues ==
    { Value("datetime", 0, << >>, y, 3, d, H, M, 7, us, aware) :
        y \in {1999, 2024}, d \in {1, 30}, H \in {0, 2, 13}, M \in {0, 59},
        us \in {0, 5}, aware \in BOOLEAN }

ConvEncode ==
    /\ cnv.pc = "start"
    /\ cnv' = [cnv EXCEPT !.pc = "encoded", !.encoded = Encode(cnv.value)]
    /\ UNCHANGED << reqVars, fd, defer, hasPath, mountOk, lnk, pathVars,
                    mnt, ident, sub, ipr, workers >>

ConvDecode ==
    /\ cnv.pc = "encoded"
    /\ \E dir \in {1, -1} :
          cnv' = [cnv EXCEPT !.pc = "decoded",
                             !.decoded = Decode(cnv.value.kind, cnv.encoded, cnv.tz, dir)]
    /\ UNCHANGED << reqVars, fd, defer, hasPath, mountOk, lnk, pathVars,
                    mnt, ident, sub, ipr, workers >>

InitConv ==
    /\ Quiet("conv", 1)
    /\ hasPath = {}
    /\ mountOk = {}
    /\ \E v \in IntValues \cup TextValues \cup DateValues \cup DatetimeValues,
          tz \in {"utc", "gap2", "gap0"} :
          cnv = [ConvIdle EXCEPT !.pc = "start", !.value = v, !.tz = tz]
    /\ mnt = MntIdle
    /\ ident = IdentIdle
    /\ sub = SubIdle
    /\ ipr = IprIdle
    /\ workers = WorkersIdle

NextConv ==
    \/ ConvEncode
    \/ ConvDecode

SpecConv == InitConv /\ [][NextConv]_vars

\* C13: for the integer, text, date and datetime converters and every value of
\* the type, decode(encode(v)) = v.
C13_ConvertersRoundTrip ==
    cnv.pc = "decoded" => cnv.decoded = cnv.value

----------------------------------------------------------------------------
(* Request.identity *)

\* what generic.identify can answer: None, NO_IDENTITY or a claimed identity
Policies == {"None", "NO_IDENTITY", "alice", "bob"}

\* (mutant) the body of Request.identity without the verify_identity check
IdentityResultUnverified(policy, verify) ==
    IF policy \in {"None", "NO_IDENTITY"} THEN "NO_IDENTITY" ELSE policy

\* the body of Request.identity
IdentityResult(policy, verify) ==
    IF policy \in {"None", "NO_IDENTITY"} THEN "NO_IDENTITY"
    ELSE IF ~verify THEN "NO_IDENTITY"
    ELSE policy

\* an access of request.identity: reify calls the function on the first access
\* and keeps the result as the attribute
IdentityAccess ==
    /\ ident.pc = "start"
    /\ Len(ident.reads) < MaxReads
    /\ IF ident.value = "unset"
       THEN LET r == IdentityResult(ident.policy, ident.verify)
            IN  ident' = [ident EXCEPT !.value = r, !.computed = @ + 1,
                                       !.at = [policy |-> ident.policy,
                                               verify |-> ident.verify],
                                       !.reads = Append(@, r)]
       ELSE ident' = [ident EXCEPT !.reads = Append(@, ident.value)]
    /\ UNCHANGED << reqVars, fd, defer, hasPath, mountOk, lnk, pathVars,
                    mnt, cnv, sub, ipr, workers >>

\* between two accesses the identity policy and verify_identity may come to
\* answer differently
IdentityEnvironment ==
    /\ ident.pc = "start"
    /\ \E p \in Policies, v \in BOOLEAN :
          /\ << p, v >> # << ident.policy, ident.verify >>
          /\ ident' = [ident EXCEPT !.policy = p, !.verify = v]
    /\ UNCHANGED << reqVars, fd, defer, hasPath, mountOk, lnk, pathVars,
                    mnt, cnv, sub, ipr, workers >>

InitIdent ==
    /\ Quiet("identity", 1)
    /\ hasPath = {}
    /\ mountOk = {}
    /\ \E p \in Policies, v \in BOOLEAN :
          ident = [IdentIdle EXCEPT !.pc = "start", !.policy = p, !.verify = v]
    /\ mnt = MntIdle
    /\ cnv = ConvIdle
    /\ sub = SubIdle
    /\ ipr = IprIdle
    /\ workers = WorkersIdle

NextIdent ==
    \/ IdentityAccess
    \/ IdentityEnvironment

SpecIdent == InitIdent /\ [][NextIdent]_vars

\* C14: request.identity is NO_IDENTITY whenever the identity policy answered
\* None or NO_IDENTITY or verify_identity refused the claimed identity, and the
\* claimed identity only when verify_identity accepted it; it is computed once
\* per request and every access gives the same value.
C14_IdentityVerified ==
    /\ ident.computed <= 1
    /\ ident.value = "unset" <=> ident.computed = 0
    /\ ident.value # "unset" =>
          /\ (ident.at.policy \in {"None", "NO_IDENTITY"} \/ ~ident.at.verify) =>
                ident.value = "NO_IDENTITY"
          /\ ident.value # "NO_IDENTITY" =>
                (ident.value = ident.at.policy /\ ident.at.verify)
          /\ (ident.at.policy \notin {"None", "NO_IDENTITY"} /\ ident.at.verify) =>
                ident.value = ident.at.policy
    /\ \A i \in 1..Len(ident.reads) : ident.reads[i] = ident.value

\* a claimed identity that was refused, read again after the answers changed
C14_Witness ==
    /\ Len(ident.reads) = 2
    /\ ident.at = [policy |-> "alice", verify |-> FALSE]
    /\ ident.policy = "bob"
    /\ ident.verify
    /\ ident.reads = << "NO_IDENTITY", "NO_IDENTITY" >>

----------------------------------------------------------------------------
(* Request.resolve_path *)

\* (mutant) resolve_model is given the calling request
ResolveRequestSelf(caller) == caller

\* request = Request(self.environ.copy(), app, path_info=path): the object
\* resolve_model is given is a new one
ResolveRequest(caller) == "fresh"

\* Request.resolve_path(path, app=arg) to the call of resolve_model
ResolvePathCall ==
    /\ sub.pc = "start"
    /\ IF sub.arg = NoApp
       THEN sub' = [sub EXCEPT !.pc = "done", !.error = "LinkError"]
       ELSE LET a == IF sub.arg = SAME_APP THEN sub.objects["caller"].app ELSE sub.arg
                t == ResolveRequest("caller")
            IN  sub' = [sub EXCEPT !.pc = "resolving", !.target = t,
                                   !.objects[t] = RequestObject(a, sub.path, << >>, {})]
    /\ UNCHANGED << reqVars, fd, defer, hasPath, mountOk, lnk, pathVars,
                    mnt, cnv, ident, ipr, workers >>

\* resolve_model(request): the path is consumed on the request it is given; the
\* model factory is passed that request and may register an after-callback
\* and make a link on it
ResolveModel ==
    /\ sub.pc = "resolving"
    /\ LET t == sub.target
           o == sub.objects[t]
           r == TrajectConsume("plain", TRUE, TRUE, o.unconsumed, "")
           ran == r.model # NoModel
       IN  sub' = [sub EXCEPT
                     !.pc = "done",
                     !.result = r.model,
                     !.objects[t] =
                         [o EXCEPT !.unconsumed = r.unconsumed,
                                   !.after = IF ran /\ sub.registers
                                             THEN Append(@, "cbsub") ELSE @,
                                   !.link_prefix_cache =
                                       IF ran /\ sub.links THEN @ \cup {o.app} ELSE @]]
    /\ UNCHANGED << reqVars, fd, defer, hasPath, mountOk, lnk, pathVars,
                    mnt, cnv, ident, ipr, workers >>

\* the calling request: as constructed, or in the middle of its publication
\* with a path segment left, a callback registered and a link prefix cached
CallerRequests ==
    { RequestObject(a, << >>, << >>, {}) : a \in {1, 2} }
        \cup { RequestObject(a, << "a" >>, << "cb1" >>, {a}) : a \in {1, 2} }

InitSub ==
    /\ Quiet("resolve", 1)
    /\ hasPath = {}
    /\ mountOk = {}
    /\ \E c \in CallerRequests, path \in Stacks, arg \in {SAME_APP, NoApp, 1, 2},
          registers \in BOOLEAN, links \in BOOLEAN :
          sub = [SubIdle EXCEPT !.pc = "start", !.objects["caller"] = c,
                                !.before = c, !.path = path, !.arg = arg,
                                !.registers = registers, !.links = links]
    /\ mnt = MntIdle
    /\ cnv = ConvIdle
    /\ ident = IdentIdle
    /\ ipr = IprIdle
    /\ workers = WorkersIdle

NextSub ==
    \/ ResolvePathCall
    \/ ResolveModel

SpecSub == InitSub /\ [][NextSub]_vars

\* C15: Request.resolve_path resolves on a new Request: when it has returned,
\* the unconsumed stack, the after-callbacks, the link-prefix cache, app and
\* lookup of the calling request are what they were, and what the resolution
\* consumed or registered is on the other request only.
C15_ResolvePathFresh ==
    /\ sub.objects["caller"] = sub.before
    /\ sub.pc \in {"resolving", "done"} /\ sub.error = "" =>
          /\ sub.target # "caller"
          /\ sub.objects[sub.target].app =
                (IF sub.arg = SAME_APP THEN sub.before.app ELSE sub.arg)
    /\ sub.pc = "resolving" =>
          sub.objects[sub.target] =
              RequestObject(sub.objects[sub.target].app, sub.path, << >>, {})
    /\ (sub.pc = "done" /\ sub.error = "") =>
          \A i \in 1..Len(sub.objects[sub.target].after) :
              sub.objects[sub.target].after[i] = "cbsub"

\* the calling request is in the middle of its publication, and the resolution
\* in another application consumed a path, registered a callback and cached a
\* link prefix
C15_Witness ==
    /\ sub.pc = "done"
    /\ sub.before = RequestObject(1, << "a" >>, << "cb1" >>, {1})
    /\ sub.arg = 2
    /\ sub.path = << "b" >>
    /\ sub.result.id = "b"
    /\ sub.objects["fresh"] = RequestObject(2, << >>, << "cbsub" >>, {2})
    /\ sub.objects["caller"] = sub.before

----------------------------------------------------------------------------
(* IdentityPolicyRegistry *)

\* the methods of an identity policy, each registered on its dispatch function
PolicyMethods == {"identify", "remember", "forget"}

\* (mutant) every call makes an identity policy with the factory it is passed
PolicyAlwaysNew(current, factory, serial) == Policy(factory, serial)

\* lines 65-69: the identity policy of the registry, made with the factory
\* when there is none yet
PolicyFor(current, factory, serial) ==
    IF current = NoPolicy THEN Policy(factory, serial) ELSE current

\* register_identity_policy_function(factory, dispatch, name)
RegisterIdentityPolicyFunction ==
    /\ ipr.pc = "start"
    /\ Len(ipr.registered) < MaxRegistrations
    /\ \E factory \in {"A", "B"}, name \in PolicyMethods :
          LET identity_policy ==
                  PolicyFor(ipr.identity_policy, factory, ipr.created + 1)
              made == identity_policy # ipr.identity_policy
          IN  ipr' = [ipr EXCEPT
                        !.identity_policy = IF made THEN identity_policy ELSE @,
                        !.created = IF made THEN @ + 1 ELSE @,
                        !.registered =
                            Append(@, [factory |-> factory, dispatch |-> name,
                                       name |-> name, self |-> identity_policy])]
    /\ UNCHANGED << reqVars, fd, defer, hasPath, mountOk, lnk, pathVars,
                    mnt, cnv, ident, sub, workers >>

InitIpr ==
    /\ Quiet("registry", 1)
    /\ hasPath = {}
    /\ mountOk = {}
    /\ ipr = [IprIdle EXCEPT !.pc = "start"]
    /\ mnt = MntIdle
    /\ cnv = ConvIdle
    /\ ident = IdentIdle
    /\ sub = SubIdle
    /\ workers = WorkersIdle

NextIpr == RegisterIdentityPolicyFunction

SpecIpr == InitIpr /\ [][NextIpr]_vars

\* C17: a registry holds a single identity policy: after any calls of
\* register_identity_policy_function the factory was called at most once, by
\* the first call; identity_policy is that instance from then on; and every
\* function registered is a method of it, whatever factory the call passed.
C17_SinglePolicy ==
    /\ ipr.created <= 1
    /\ ipr.registered = << >> <=> ipr.identity_policy = NoPolicy
    /\ ipr.registered # << >> =>
          /\ ipr.created = 1
          /\ ipr.identity_policy = Policy(ipr.registered[1].factory, 1)
    /\ \A i \in 1..Len(ipr.registered) :
          ipr.registered[i].self = ipr.identity_policy

\* three methods registered, the later calls passing another factory
C17_Witness ==
    /\ Len(ipr.registered) = 3
    /\ ipr.registered[1].factory = "A"
    /\ ipr.registered[2].factory = "B"
    /\ ipr.registered[3].factory = "B"
    /\ ipr.identity_policy = Policy("A", 1)
    /\ ipr.registered[3].self = Policy("A", 1)

----------------------------------------------------------------------------
(* Request.view in two workers *)

\* lines 136-137: old_app = self.app; old_lookup = self.lookup
ViewSave(w) ==
    /\ workers.req[w].pc = "found"
    /\ workers' = [workers EXCEPT !.req[w].old_app = workers.req[w].app,
                                  !.req[w].old_lookup = workers.req[w].lookup,
                                  !.req[w].pc = "saved"]
    /\ UNCHANGED << reqVars, fd, defer, hasPath, mountOk, lnk, pathVars,
                    mnt, cnv, ident, sub, ipr >>

\* App.set_implicit: the implicit application is a field all workers share
SetImplicit(a) == implicit' = a

\* what a worker leaves alone when it sets the implicit application
WorkerFrame ==
    UNCHANGED << pc, mode, app, lookup, view_name, method, req, granted, after,
                 called, stack, invoked, outcome, exc, cause, exits, got, fd,
                 defer, hasPath, mountOk, lnk, pathVars, mnt, cnv, ident, sub,
                 ipr >>

\* line 138: app.set_implicit()
ViewSetImplicit(w) ==
    /\ workers.req[w].pc = "saved"
    /\ SetImplicit(workers.req[w].target)
    /\ workers' = [workers EXCEPT !.req[w].pc = "implicit"]
    /\ WorkerFrame

\* lines 139-140: self.app = app; self.lookup = app.lookup
ViewSwitch(w) ==
    /\ workers.req[w].pc = "implicit"
    /\ workers' = [workers EXCEPT !.req[w].app = workers.req[w].target,
                                  !.req[w].lookup = LookupOf(workers.req[w].target),
                                  !.req[w].pc = "switched"]
    /\ UNCHANGED << reqVars, fd, defer, hasPath, mountOk, lnk, pathVars,
                    mnt, cnv, ident, sub, ipr >>

\* line 141: view.func(obj, self) begins
ViewCall(w) ==
    /\ workers.req[w].pc = "switched"
    /\ workers' = [workers EXCEPT !.req[w].pc = "func"]
    /\ UNCHANGED << reqVars, fd, defer, hasPath, mountOk, lnk, pathVars,
                    mnt, cnv, ident, sub, ipr >>

\* lines 141-142: view.func returned; old_app.set_implicit()
ViewRestoreImplicit(w) ==
    /\ workers.req[w].pc = "func"
    /\ SetImplicit(workers.req[w].old_app)
    /\ workers' = [workers EXCEPT !.req[w].pc = "restoring"]
    /\ WorkerFrame

\* lines 143-145: self.app = old_app; self.lookup = old_lookup; return result
ViewRestore(w) ==
    /\ workers.req[w].pc = "restoring"
    /\ workers' = [workers EXCEPT !.req[w].app = workers.req[w].old_app,
                                  !.req[w].lookup = workers.req[w].old_lookup,
                                  !.req[w].pc = "done"]
    /\ UNCHANGED << reqVars, fd, defer, hasPath, mountOk, lnk, pathVars,
                    mnt, cnv, ident, sub, ipr >>

\* two requests to one application, each in Request.view with a view found
InitWorkers ==
    /\ \E a \in Apps : Quiet("workers", a)
    /\ hasPath = {}
    /\ mountOk = {}
    /\ \E t \in [Workers -> Apps] :
          workers = [pc |-> "run",
                     req |-> [w \in Workers |-> WorkerRequest("found", app, t[w])]]
    /\ mnt = MntIdle
    /\ cnv = ConvIdle
    /\ ident = IdentIdle
    /\ sub = SubIdle
    /\ ipr = IprIdle

NextWorkers ==
    \E w \in Workers :
        \/ ViewSave(w)
        \/ ViewSetImplicit(w)
        \/ ViewSwitch(w)
        \/ ViewCall(w)
        \/ ViewRestoreImplicit(w)
        \/ ViewRestore(w)

SpecWorkers == InitWorkers /\ [][NextWorkers]_vars

\* C18: under any interleaving of two requests in Request.view, while a view
\* function runs request.app, request.lookup and the implicit application are
\* the application the view was found in, and when both calls have finished
\* the implicit application is the one the requests had before their calls.
C18_ViewContextUnderConcurrency ==
    /\ \A w \in Workers :
          workers.req[w].pc = "func" =>
              /\ workers.req[w].app = workers.req[w].target
              /\ workers.req[w].lookup = LookupOf(workers.req[w].target)
              /\ implicit = workers.req[w].target
    /\ (\A w \in Workers : workers.req[w].pc = "done") =>
          \A w \in Workers : implicit = workers.req[w].app

----------------------------------------------------------------------------
(* Properties of request handling *)

Done == pc = "done"

InvokedBy(who) == { invoked[i].v : i \in { j \in 1..Len(invoked) : invoked[j].by = who } }

\* the registrations the request, as it arrived, matches on each predicate
ReqByModel == { r \in Registrations : r.app = LookupOf(req.app) /\ r.model \in MroSet(req.cls) }

ReqByName == { r \in ReqByModel : r.name = req.name }

ReqByMethod == { r \in ReqByName : r.request_method = req.method }

\* the view the arriving request resolves to, when all three predicates match
ReqView == Nearest(ReqByMethod, req.cls).view

\* the permission check is made for the arriving request, and answers false
PermissionDenied ==
    /\ ReqByMethod # {}
    /\ ~ViewDef(ReqView).internal
    /\ ViewDef(ReqView).permission
    /\ ~granted

\* C1: every exit of Request.view, by return or by an exception of the view
\* function, leaves request.app, request.lookup and the implicit application
\* as they were immediately before the call, nested calls included.
C1_ViewRestoresContext == \A e \in exits : e.after = e.before

\* C2: get_response never calls a view that declares a permission unless the
\* permission check granted it; when the check is made for the resolved view
\* and answers false, get_response raises HTTPForbidden, the view function is
\* not invoked in that request, and the request ends forbidden.
C2_ForbiddenBeforeView ==
    /\ \A v \in InvokedBy("get_response") : ViewDef(v).permission => granted
    /\ (PermissionDenied /\ pc # "start") =>
          /\ cause = "forbidden"
          /\ \A i \in 1..Len(invoked) : invoked[i].v # ReqView
          /\ pc = "raised" => exc = "HTTPForbidden"
          /\ Done => outcome = Responded(403)

C2_Witness == Done /\ PermissionDenied /\ outcome = Responded(403)

\* C4: the predicates are resolved in the order model, name, request_method and
\* the first that fails decides: no view for the model class is not-found, a
\* registered model with an unregistered name is not-found (never
\* method-not-allowed), a registered (model, name) with an unregistered method
\* is method-not-allowed.
C4_FallbackOrder ==
    Done =>
      /\ ReqByModel = {} => outcome = Responded(404)
      /\ (ReqByModel # {} /\ ReqByName = {}) => outcome = Responded(404)
      /\ (ReqByName # {} /\ ReqByMethod = {}) => outcome = Responded(405)

\* a registered model, an unregistered name and a method no view of the model has
C4_Witness ==
    /\ Done
    /\ ReqByModel # {}
    /\ ReqByName = {}
    /\ \A r \in ReqByModel : r.request_method # req.method
    /\ outcome = Responded(404)

\* C5: a request that fails by non-match, forbidden or method mismatch ends
\* with the response not-found, forbidden or method-not-allowed: get_response
\* returned None or raised an HTTP exception, and nothing else leaves the tween.
C5_FailuresBecomeResponses ==
    /\ (pc = "raised" /\ cause # "") => exc \in HTTPErrors
    /\ (Done /\ cause = "nonmatch") => outcome = Responded(404)
    /\ (Done /\ cause = "forbidden") => outcome = Responded(403)
    /\ (Done /\ cause = "method") => outcome = Responded(405)

C5_Witness == Done /\ cause = "method" /\ outcome = Responded(405)

\* C6: get_response never calls an internal view; a request for the name of an
\* internal view ends not-found like a request for an unregistered name; and
\* Request.view from another view of the same request reaches the internal view
\* and returns the result of its function.
C6_InternalNotPublished ==
    /\ \A v \in InvokedBy("get_response") : ~ViewDef(v).internal
    /\ (Done /\ ReqByMethod # {} /\ ViewDef(ReqView).internal) =>
          /\ cause = "nonmatch"
          /\ outcome = Responded(404)
    /\ (Done /\ ReqByModel # {} /\ ReqByName = {}) =>
          /\ cause = "nonmatch"
          /\ outcome = Responded(404)
    /\ (Done /\ req = [app |-> 1, cls |-> "Root", name |-> "", method |-> "GET"]) =>
          /\ got = << [v |-> "root_internal", value |-> "Internal!"] >>
          /\ outcome = Responded(200)

C6_Witness ==
    /\ Done
    /\ req = [app |-> 1, cls |-> "Root", name |-> "internal", method |-> "GET"]
    /\ ViewDef(ReqView).internal
    /\ outcome = Responded(404)

\* C7: when the request ends in an outcome that is not 2xx/3xx, no callback
\* registered with request.after has been called.
C7_NoAfterOnFailure ==
    (Done /\ ~(outcome.kind = "response" /\ Success(outcome.status))) =>
        called = << >>

\* C8: when the request ends 2xx/3xx, every callback registered with
\* request.after has been called exactly once with the final response, in
\* registration order.
C8_AfterOnSuccess ==
    (Done /\ outcome.kind = "response" /\ Success(outcome.status)) =>
        called = RunAfter(after, outcome.status)

----------------------------------------------------------------------------
(* Properties of links *)

\* the applications from a by defer, at most k of them
RECURSIVE DeferChain(_, _)
DeferChain(a, k) ==
    IF k = 0 \/ a = NoApp THEN << >> ELSE << a >> \o DeferChain(defer[a], k - 1)

\* a and its ancestors that are mounted in a parent
RECURSIVE MountChain(_)
MountChain(a) ==
    IF a = NoApp \/ ParentOf(a) = NoApp THEN {} ELSE {a} \cup MountChain(ParentOf(a))

\* the path can be built at every level of the mount chain of a
Linkable(a) == a \in hasPath /\ MountChain(a) \subseteq mountOk

\* defer never ends from start, and no application on the way can link
CircularWalk(start) ==
    LET ch == DeferChain(start, NApps + 1)
    IN  /\ Len(ch) = NApps + 1
        /\ \A i \in 1..Len(ch) : ~Linkable(ch[i])

LinkDone == lnk.pc = "done"

\* C3: follow_defers terminates for every defer relation: its loop makes at
\* most one pass per application and one more; when no application on the
\* walk can link and the walk comes back to an application it visited, it
\* raises LinkError (circular defer) and Request.link fails with LinkError.
C3_DeferWalkTerminates ==
    /\ fd.passes <= Cardinality(Apps) + 1
    /\ (LinkDone /\ CircularWalk(lnk.app)) =>
            (fd.pc = "circular" /\ lnk.error = "LinkError")

\* A defers to B defers to A
C3_Witness ==
    /\ LinkDone
    /\ fd.pc = "circular"
    /\ Cardinality(fd.seen) = 2
    /\ lnk.error = "LinkError"

\* every level of the mount chain of a is in the path
AllLevels(path, a) ==
    { Seg("model", a) } \cup { Seg("mount", b) : b \in MountChain(a) }
        \subseteq { path[i] : i \in 1..Len(path) }

\* C10: link returns None when the model has no path in the application or an
\* ancestor has no path for the application mounted below it; Request.link
\* raises LinkError when no application of the walk can build the path, and
\* what it returns otherwise has every level of the mount chain.
C10_LinkFailsExplicitly ==
    /\ \A a \in Apps : ~Linkable(a) => ~Link(a).ok
    /\ LinkDone =>
          /\ fd.pc # "found" => (lnk.error = "LinkError" /\ ~lnk.info.ok)
          /\ fd.pc = "found" =>
                /\ lnk.error = ""
                /\ Linkable(fd.app)
                /\ AllLevels(lnk.info.path, fd.app)
          /\ (\A a \in (fd.seen \cup {fd.app}) \ {NoApp} : ~Linkable(a)) =>
                lnk.error = "LinkError"

\* the model has a path, an ancestor has none for the mounted application
C10_Witness ==
    /\ LinkDone
    /\ fd.pc = "none"
    /\ lnk.app \in hasPath
    /\ ~Linkable(lnk.app)
    /\ lnk.error = "LinkError"

----------------------------------------------------------------------------
(* Properties of paths *)

\* C9: consuming and building paths are inverses: when a path was consumed to
\* a model with nothing left on the stack, building the path of the model and
\* consuming it again gives an equal model; with '' for Root and '{id}' for
\* Model, consuming 'a' gives a Model with id 'a', and the path of the Model
\* with id 'b' is ('b', {}).
C9_PathRoundTrip ==
    /\ (pth.pc = "again" /\ pth.left = << >>) =>
          (pth.again = pth.model /\ unconsumed = << >>)
    /\ (pth.pc \in {"consumed", "failed"} /\ pth.before = << "a" >>
           /\ pth.traject /\ pth.context) =>
          (pth.model.cls = "Model" /\ pth.model.id = "a" /\ unconsumed = << >>)
    /\ (pth.pc = "built" /\ pth.cfg = "plain" /\ pth.model.cls = "Model"
           /\ pth.model.id = "b") =>
          (pth.path = << "b" >> /\ pth.params = "")

\* a path of two segments with an integer that is not written canonically
C9_Witness ==
    /\ pth.pc = "again"
    /\ pth.before = << "docs", "07" >>
    /\ pth.left = << >>
    /\ pth.path = << "docs", "7" >>
    /\ pth.again = pth.model

----------------------------------------------------------------------------
(* Properties of links through mounts *)

NotSlash(x) == x # Slash

\* the path segments of a path string, in order
Segments(path) == SelectSeq(path, NotSlash)

\* the mount-point paths of the ancestors of a, from the root down
RECURSIVE ChainDown(_)
ChainDown(a) ==
    IF a = NoApp \/ ParentOf(a) = NoApp THEN << >>
    ELSE ChainDown(ParentOf(a)) \o MountPath(a)

\* neither a leading nor a trailing slash, and a slash between any two segments
WellJoined(path) ==
    /\ path # << >> => (Head(path) # Slash /\ path[Len(path)] # Slash)
    /\ \A i \in 1..(Len(path) - 1) : path[i] = Slash \/ path[i + 1] = Slash

\* the parameters of the model and of every mount above it
ChainParams(a) ==
    ModelParams(a) \cup UNION { MountParams(b) : b \in MountChain(a) }

\* C11: the link path of a model reached through a chain of mounts is the
\* mount-point path of each ancestor from the root down, then the local path
\* of the model, joined with '/' without a leading or trailing slash; a model
\* at 'foo' in an application mounted at 'inner' links to 'inner/foo'; the
\* parameters of the ancestors are merged into those of the link.
C11_MountChainPath ==
    /\ mnt.pc \in {"linked", "done"} =>
          /\ mnt.info.ok
          /\ Segments(mnt.info.path) = ChainDown(mnt.app) \o ModelPath(mnt.app)
          /\ WellJoined(mnt.info.path)
          /\ mnt.info.params = ChainParams(mnt.app)
          /\ (mnt.app = 2 /\ mnt.emptyModels = {} /\ mnt.emptyMounts = {}) =>
                mnt.info.path = << Seg("mount", 2), Slash, Seg("model", 2) >>
    /\ mnt.pc = "done" =>
          /\ mnt.core.ok
          /\ Segments(mnt.core.path) =
                Segments(ScriptName(mnt.script)) \o ChainDown(mnt.app)
                    \o ModelPath(mnt.app)
          /\ WellJoined(mnt.core.path)
          /\ mnt.core.params = ChainParams(mnt.app)
          /\ ~mnt.script => mnt.core = mnt.info

\* two mounts above the model, the upper one at the empty path
C11_Witness ==
    /\ mnt.pc = "done"
    /\ mnt.app = 3
    /\ mnt.emptyMounts = {2}
    /\ mnt.emptyModels = {}
    /\ mnt.info.path = << Seg("mount", 3), Slash, Seg("model", 3) >>
    /\ mnt.info.params = { [key |-> 0, val |-> 3], [key |-> 2, val |-> 2],
                            [key |-> 3, val |-> 3] }

----------------------------------------------------------------------------
(* Properties of query variables and of failed consumption *)

\* C12: a variable of the factory with a default that is not in the path
\* pattern is a query variable: without the query parameter the factory gets
\* the default, with it the value of the request; the path built for a model
\* gives every variable the pattern does not use as a parameter ('b' with
\* param 'other' gives ('b', {'param': ['other']})), and none otherwise.
C12_QueryVariables ==
    /\ (pth.pc \in {"consumed", "built"} /\ pth.cfg = "params"
           /\ pth.model.cls = "Model") =>
          pth.model.param = (IF query = "" THEN "default" ELSE query)
    /\ (pth.pc \in {"consumed", "built"}
           /\ ~(pth.cfg = "params" /\ pth.model.cls = "Model")) =>
          pth.model.param = ""
    /\ pth.pc \in {"built", "again"} =>
          /\ pth.params = pth.model.param
          /\ pth.model.cls = "Model" => pth.path = << pth.model.id >>

C12_Witness ==
    /\ pth.pc = "built"
    /\ pth.cfg = "params"
    /\ pth.before = << "b" >>
    /\ query = "other"
    /\ pth.path = << "b" >>
    /\ pth.params = "other"

\* the number of path segments the route of a class consumes
Consumes(cls) == IF cls = "Root" THEN 0 ELSE IF cls = "Model" THEN 1 ELSE 2

\* C19: when traject_consume returns None (no traject, no matching route, no
\* context, or the factory returns None) request.unconsumed is the stack it
\* was before the call; it is replaced only when a model is returned, by
\* exactly what the trie left unconsumed at the match.
C19_FailedConsumeKeepsStack ==
    /\ pth.pc = "failed" => (pth.model = NoModel /\ unconsumed = pth.before)
    /\ pth.pc = "consumed" =>
          /\ pth.model # NoModel
          /\ pth.traject /\ pth.context
          /\ unconsumed = TrieConsume(<< >>, pth.before, [id |-> "", n |-> 0]).stack
          /\ unconsumed = SubSeq(pth.before, Consumes(pth.model.cls) + 1,
                                 Len(pth.before))
    /\ (pth.pc \in {"consumed", "failed"} /\ ~(pth.traject /\ pth.context)) =>
          pth.pc = "failed"

\* the trie matches '{id}' and leaves a segment, the factory returns None
C19_Witness ==
    /\ pth.pc = "failed"
    /\ pth.traject
    /\ pth.context
    /\ pth.before = << "x", "a" >>
    /\ unconsumed = << "x", "a" >>

----------------------------------------------------------------------------
(* Properties of follow_defers *)

\* the application the walk in progress started from
WalkStart ==
    IF fd.caller = "link" THEN lnk.app
    ELSE IF Instr.n = SAME_APP THEN app ELSE Instr.n

\* find(a, obj) is not None, for the find of the caller
Finds(a) ==
    IF fd.caller = "link" THEN Link(a).ok
    ELSE ViewFind(a, fd.cls, fd.name) # ""

\* the place in a chain of the first application that finds, 0 when none does
FirstFind(ch) ==
    IF \E i \in 1..Len(ch) : Finds(ch[i])
    THEN CHOOSE i \in 1..Len(ch) : Finds(ch[i]) /\ \A j \in 1..(i - 1) : ~Finds(ch[j])
    ELSE 0

\* the walk of follow_defers, while it runs and when it has ended
DeferWalk ==
    fd.pc # "idle" =>
      LET ch == DeferChain(WalkStart, NApps + 1)
          k == FirstFind(ch)
      IN  /\ \A a \in fd.seen : ~Finds(a)
          /\ fd.seen \subseteq { ch[i] : i \in 1..Len(ch) }
          /\ fd.pc = "found" =>
                /\ k > 0
                /\ fd.app = ch[k]
                /\ fd.seen = { ch[i] : i \in 1..(k - 1) }
                /\ fd.caller = "link" => fd.info = Link(fd.app)
                /\ fd.caller = "view" => fd.view = ViewFind(fd.app, fd.cls, fd.name)
          /\ Finds(WalkStart) => (fd.pc \in {"loop", "found"} /\ fd.seen = {})
          /\ fd.pc = "none" =>
                /\ fd.app = NoApp
                /\ k = 0
                /\ Len(ch) <= NApps
          /\ (fd.pc = "none" /\ lnk.pc = "done") => lnk.error = "LinkError"

\* Request.view returns the default when follow_defers returned (None, None)
NoneIsDefault ==
    (fd.pc = "none" /\ fd.caller = "view") =>
        (got' = Append(got, [v |-> "", value |-> "default"]) /\ invoked' = invoked)

\* C16: follow_defers returns (result, a) for the first application a of app,
\* deferred(app), deferred(deferred(app)), ... whose find is not None; the
\* deferred application is asked only of applications whose find gave None,
\* an application that finds is never passed over, and a chain that ends with
\* no result gives (None, None), which Request.view turns into the default
\* and Request.link into LinkError.
C16_FirstApplication == []DeferWalk /\ [][NoneIsDefault]_vars

\* a link found in the third application of the chain
C16_Witness ==
    /\ fd.caller = "link"
    /\ fd.pc = "found"
    /\ Cardinality(fd.seen) = 2
    /\ lnk.pc = "done"
    /\ lnk.info.ok

----------------------------------------------------------------------------
(* Request.view and access control *)

\* the component the predicate lookup of Request.view gives in the application
\* follow_defers is at
Component == ViewComponent(LookupOf(fd.app), fd.cls, fd.name, "GET")

\* follow_defers is in a pass for Request.view that asks find
ViewPass ==
    /\ fd.caller = "view"
    /\ fd.pc = "loop"
    /\ fd.app # NoApp
    /\ fd.app \notin fd.seen

\* a view the lookup gives is the view found, whatever it declares
FoundWhateverDeclared ==
    (ViewPass /\ Component \notin Fallbacks) =>
        /\ fd'.pc = "found"
        /\ fd'.view = Component

\* the view found is called next, and no exception comes of it
CalledUnchecked ==
    (fd.caller = "view" /\ fd.pc = "found") =>
        /\ invoked' = Append(invoked, [v |-> fd.view, by |-> "Request.view"])
        /\ pc' = pc
        /\ exc' = exc

\* what the function returned is what Request.view returns
RawResult ==
    (Running /\ Top.kind = "view" /\ Instr.op = "return") =>
        /\ got' = Append(got, [v |-> Top.v, value |-> Instr.arg])
        /\ outcome' = outcome

\* the statements of Request.view run no callback and forbid nothing
NothingElse ==
    (fd.caller = "view" \/ (Running /\ Top.kind = "view" /\ Instr.op = "return")) =>
        /\ called' = called
        /\ cause' = cause
        /\ exc' # "HTTPForbidden"

\* C20: Request.view performs no access control: a view found by the predicate
\* lookup, following defers, is called whatever permission it declares and
\* whether or not it is internal; no permission check is made and nothing is
\* forbidden; the raw result of the function is returned, unrendered, and no
\* after-callback runs.
C20_ViewNoAccessControl ==
    [][FoundWhateverDeclared /\ CalledUnchecked /\ RawResult /\ NothingElse]_vars

\* an internal view with a permission, reached through a defer by a request
\* the permission check would refuse, has returned its result
C20_Witness ==
    /\ ~granted
    /\ ViewDef("sub_secret").internal
    /\ ViewDef("sub_secret").permission
    /\ \E i \in 1..Len(invoked) :
          invoked[i] = [v |-> "sub_secret", by |-> "Request.view"]
    /\ \E i \in 1..Len(got) :
          got[i] = [v |-> "sub_secret", value |-> "sub secret"]
    /\ cause # "forbidden"

====
